---- MODULE Spec2Model ----
(***************************************************************************)
(* Model of src/app/api/generate-product-image/route.ts: the POST handler  *)
(* that creates a job record, normalises the product image, asks the       *)
(* generation model twice, publishes the result and cleans up on failure,  *)
(* together with its helpers urlToInlineData and extractJson.              *)
(*                                                                         *)
(* Strings are sequences of one-character strings, so that startsWith,     *)
(* endsWith, toLowerCase, trim, replace and the regular expression of      *)
(* extractJson are computed, not assumed.  Model output is a sequence of   *)
(* tokens: braces, brackets and blanks are themselves, "F" is the code     *)
(* fence ```, "J" the word json, "w" a word of prose, "m" a fragment of    *)
(* member text of a JSON object ("textToImage":"..","imageToVideo":"..")   *)
(* and "e" the member text whose imageToVideo is the empty string.         *)
(*                                                                         *)
(* The source file holds the handler twice (lines 1-244 and 246-453); the  *)
(* two copies differ in the wording of the two prompts only, and the       *)
(* definitions below follow the first.                                     *)
(***************************************************************************)
EXTENDS Integers, Sequences, FiniteSets, TLC

\* ------------------------------------------------------------ bounds
\* Largest value Date.now() takes in a run (the clock starts at 1).
MaxClock == 2
\* Longest prose put before and after the JSON object of a model output.
MaxProse == 2
\* Longest stem put before the extension of a fetched URL.
MaxStem == 1

\* ------------------------------------------------------- string helpers
\* JavaScript null / undefined for a string-valued field.
Null == <<"<null>">>

Truthy(s) == s # Null /\ s # <<>>

StartsWith(s, p) == Len(s) >= Len(p) /\ SubSeq(s, 1, Len(p)) = p

EndsWith(s, p) == Len(s) >= Len(p) /\ SubSeq(s, Len(s) - Len(p) + 1, Len(s)) = p

LowerChar(c) ==
    CASE c = "J" -> "j" [] c = "P" -> "p" [] c = "G" -> "g" [] c = "E" -> "e"
      [] c = "W" -> "w" [] c = "B" -> "b" [] c = "I" -> "i" [] c = "F" -> "f"
      [] OTHER -> c

ToLowerCase(s) == [k \in 1..Len(s) |-> LowerChar(s[k])]

IsBlank(c) == c = " "

RECURSIVE TrimStart(_)
TrimStart(s) == IF s # <<>> /\ IsBlank(Head(s)) THEN TrimStart(Tail(s)) ELSE s

RECURSIVE TrimEnd(_)
TrimEnd(s) ==
    IF s # <<>> /\ IsBlank(s[Len(s)]) THEN TrimEnd(SubSeq(s, 1, Len(s) - 1)) ELSE s

Trim(s) == TrimEnd(TrimStart(s))

\* Positions at which pat occurs in s.
Occurrences(s, pat) ==
    {k \in 1..(Len(s) - Len(pat) + 1) : SubSeq(s, k, k + Len(pat) - 1) = pat}

Min(S) == CHOOSE x \in S : \A y \in S : x <= y

Max(S) == CHOOSE x \in S : \A y \in S : x >= y

\* String.prototype.replace(pat, "") with a string pattern: the first
\* occurrence only.
ReplaceFirst(s, pat) ==
    IF Occurrences(s, pat) = {} THEN s
    ELSE LET k == Min(Occurrences(s, pat))
         IN  SubSeq(s, 1, k - 1) \o SubSeq(s, k + Len(pat), Len(s))

\* ------------------------------------------------------ urlToInlineData
MinBytes == 20

IMAGE_PREFIX == <<"i", "m", "a", "g", "e", "/">>

JPEG == IMAGE_PREFIX \o <<"j", "p", "e", "g">>
WEBP == IMAGE_PREFIX \o <<"w", "e", "b", "p">>
GIF == IMAGE_PREFIX \o <<"g", "i", "f">>
PNG == IMAGE_PREFIX \o <<"p", "n", "g">>

MimeByExtensionNoLower(url, contentType) ==
    LET header == IF contentType = Null THEN <<>> ELSE contentType
    IN  IF StartsWith(header, IMAGE_PREFIX) THEN header
        ELSE IF EndsWith(url, <<".", "j", "p", "g">>)
                \/ EndsWith(url, <<".", "j", "p", "e", "g">>) THEN JPEG
        ELSE IF EndsWith(url, <<".", "w", "e", "b", "p">>) THEN WEBP
        ELSE IF EndsWith(url, <<".", "g", "i", "f">>) THEN GIF
        ELSE PNG

\* Lines 90-97: the content-type header when it is an image type, else the
\* type the URL's extension names, else image/png.
MimeTypeOf(url, contentType) ==
    LET mimeType == IF contentType = Null THEN <<>> ELSE contentType
        lower == ToLowerCase(url)
    IN  IF StartsWith(mimeType, IMAGE_PREFIX) THEN mimeType
        ELSE IF EndsWith(lower, <<".", "j", "p", "g">>)
                \/ EndsWith(lower, <<".", "j", "p", "e", "g">>) THEN JPEG
        ELSE IF EndsWith(lower, <<".", "w", "e", "b", "p">>) THEN WEBP
        ELSE IF EndsWith(lower, <<".", "g", "i", "f">>) THEN GIF
        ELSE PNG

\* A fetch response: fetch itself rejected (network), or a response with its
\* ok flag, body length and content-type header.
FetchFailed == [rejected |-> TRUE, ok |-> FALSE, byteLength |-> 0, contentType |-> Null]

UrlToInlineDataNoSizeCheck(url, res) ==
    IF res.rejected THEN [thrown |-> "NetworkError", mimeType |-> Null]
    ELSE IF ~res.ok THEN [thrown |-> "FetchError", mimeType |-> Null]
    ELSE [thrown |-> "", mimeType |-> MimeTypeOf(url, res.contentType)]

\* Lines 76-100: what urlToInlineData(url) throws or returns when fetch
\* answers res.  thrown = "" is a normal return.
UrlToInlineData(url, res) ==
    IF res.rejected THEN [thrown |-> "NetworkError", mimeType |-> Null]
    ELSE IF ~res.ok THEN [thrown |-> "FetchError", mimeType |-> Null]
    ELSE IF res.byteLength < MinBytes
         THEN [thrown |-> "EmptyContentError", mimeType |-> Null]
    ELSE [thrown |-> "", mimeType |-> MimeTypeOf(url, res.contentType)]

\* ---------------------------------------------------------- extractJson
OpenBrace == "{"
CloseBrace == "}"

\* The text between the braces of a JSON object: nothing, the member text
\* "e", or member text that starts and ends with a fragment "m" and holds in
\* between only what a string value can hold.
ValidBody(body) ==
    \/ body = <<>>
    \/ body = <<"e">>
    \/ /\ Head(body) = "m"
       /\ body[Len(body)] = "m"
       /\ \A k \in 1..Len(body) : body[k] \in {"m", "F", "J", " "}

NotJson == [ok |-> FALSE, value |-> <<>>]

\* JSON.parse: blanks around a value are skipped; a value is an object or an
\* array of at most one value.  The parsed value is written in canonical
\* form, its text without the skipped blanks.
RECURSIVE JsonParse(_)
JsonParse(text) ==
    LET s == Trim(text)
    IN  IF Len(s) < 2 THEN NotJson
        ELSE LET inner == Trim(SubSeq(s, 2, Len(s) - 1))
             IN  IF Head(s) = OpenBrace /\ s[Len(s)] = CloseBrace
                 THEN IF ValidBody(inner)
                      THEN [ok |-> TRUE, value |-> <<OpenBrace>> \o inner \o <<CloseBrace>>]
                      ELSE NotJson
                 ELSE IF Head(s) = "[" /\ s[Len(s)] = "]"
                 THEN IF inner = <<>> THEN [ok |-> TRUE, value |-> <<"[", "]">>]
                      ELSE LET v == JsonParse(inner)
                           IN  IF v.ok
                               THEN [ok |-> TRUE, value |-> <<"[">> \o v.value \o <<"]">>]
                               ELSE NotJson
                 ELSE NotJson

\* text.match(/\{[\s\S]*\}/): from the first "{" to the last "}" after it;
\* Null when there is none.
MatchBraces(text) ==
    LET opens == {k \in 1..Len(text) : text[k] = OpenBrace}
    IN  IF opens = {} THEN Null
        ELSE LET first == Min(opens)
                 closes == {k \in (first + 1)..Len(text) : text[k] = CloseBrace}
             IN  IF closes = {} THEN Null ELSE SubSeq(text, first, Max(closes))

ExtractJsonDirectOnly(text) ==
    LET direct == JsonParse(text)
    IN  IF direct.ok THEN [thrown |-> "", value |-> direct.value]
        ELSE [thrown |-> "SyntaxError", value |-> <<>>]

\* Lines 102-110: JSON.parse(text), and when that throws, JSON.parse of the
\* brace-delimited match, or "No JSON found" when nothing matches.
ExtractJson(text) ==
    LET direct == JsonParse(text)
    IN  IF direct.ok THEN [thrown |-> "", value |-> direct.value]
        ELSE LET match == MatchBraces(text)
             IN  IF match = Null THEN [thrown |-> "NoJsonFound", value |-> <<>>]
                 ELSE LET second == JsonParse(match)
                      IN  IF second.ok THEN [thrown |-> "", value |-> second.value]
                          ELSE [thrown |-> "SyntaxError", value |-> <<>>]

\* Both failures of extractJson are the spec's MalformedModelOutputError.
IsMalformedOutput(thrown) == thrown \in {"NoJsonFound", "SyntaxError"}

FENCE_JSON == <<"F", "J">>
FENCE == <<"F">>

\* Lines 192-193: jsonResponse.text?.trim() || "", then the first "```json"
\* and the first "```" removed, then trim.
StripOutput(raw) ==
    LET textOutput == IF raw = Null THEN <<>> ELSE Trim(raw)
    IN  Trim(ReplaceFirst(ReplaceFirst(textOutput, FENCE_JSON), FENCE))

\* Lines 192-194.
ParseModelOutput(raw) == ExtractJson(StripOutput(raw))

\* json?.textToImage and json.imageToVideo of a parsed value: undefined
\* (Null) unless the value is an object with members.
IsObjectWithMembers(value) == Len(value) > 2 /\ Head(value) = OpenBrace

TextToImageOf(value) ==
    IF IsObjectWithMembers(value) THEN <<"t">> \o SubSeq(value, 2, Len(value) - 1)
    ELSE Null

ImageToVideoOf(value) ==
    IF ~IsObjectWithMembers(value) THEN Null
    ELSE IF value = <<OpenBrace, "e", CloseBrace>> THEN <<>>
    ELSE <<"v">> \o SubSeq(value, 2, Len(value) - 1)

\* ----------------------------------------------------------- the handler
VARIABLES
    clock,      \* Date.now()
    store,      \* the "user-ads" collection: document key -> document
    inv,        \* per request: the handler's position and locals
    mimeProbe,  \* one call of urlToInlineData on its own
    jsonProbe   \* one parse of a model output on its own

vars == <<clock, store, inv, mimeProbe, jsonProbe>>

\* The claims are about one submission and about any two concurrent ones.
Requests == {"r1", "r2"}

\* The "users" collection, by email.
Users == {"known@x"}

PROMPT == <<"PROMPT">>
AVATAR_PROMPT == <<"AVATAR_PROMPT">>

ProductUrl == <<"u", ".", "g", "i", "f">>
ShortAvatar == <<"a", "v">>
LongAvatar == <<"a", "v", "a">>

\* What req.formData() can hold.  description and size are copied into the
\* record and read nowhere; they are left out.
Forms ==
    [file : {"none", "empty", "bytes"},
     userEmail : {"known@x", "unknown@x"},
     avatar : {Null, ShortAvatar, LongAvatar},
     imageUrl : {Null, ProductUrl}]

NoForm == [file |-> "none", userEmail |-> "", avatar |-> Null, imageUrl |-> Null]

\* The URL the image host gives an upload: one per request and upload.
HostUrl(r, what) == <<"i", "k", "/", r, what, ".", "p", "n", "g">>

NoDoc == [exists |-> FALSE]

DocIds == 1..MaxClock

NoPart == [inlineData |-> [from |-> "none", url |-> Null, mimeType |-> Null]]

InlinePart(from, url, mimeType) ==
    [inlineData |-> [from |-> from, url |-> url, mimeType |-> mimeType]]

TextPart(text) == [text |-> text]

Idle ==
    [pc |-> "idle", form |-> NoForm, docId |-> 0, productImageUrl |-> Null,
     uploadedBase64 |-> FALSE, productPart |-> NoPart, json |-> <<>>,
     partsForImage |-> <<>>, uploadResult |-> Null, thrown |-> "", escaped |-> "",
     response |-> [kind |-> "none", body |-> Null], log |-> <<>>]

\* The responses of fetch the handler's runs are checked against.
FetchResponses ==
    {FetchFailed}
    \cup [rejected : {FALSE}, ok : BOOLEAN, byteLength : {MinBytes - 1, MinBytes},
          contentType : {Null, WEBP}]

\* The texts the first model call is checked against: the object alone, in a
\* fence, in prose, in prose that holds a brace, with an empty imageToVideo,
\* the empty object, and no JSON at all.
ModelOutputs ==
    { <<OpenBrace, "m", CloseBrace>>,
      <<"F", "J", " ", OpenBrace, "m", CloseBrace, " ", "F">>,
      <<"w", " ", OpenBrace, "m", CloseBrace, " ", "w">>,
      <<OpenBrace, "w", CloseBrace, " ", OpenBrace, "m", CloseBrace>>,
      <<OpenBrace, "e", CloseBrace>>,
      <<OpenBrace, CloseBrace>>,
      <<"w">>,
      Null }

Step(r, fields) == inv' = [inv EXCEPT ![r] = fields]

Logged(r, entry) == Append(inv[r].log, entry)

\* A throw inside the try block (lines 136-238): control goes to the catch,
\* which holds the error as e.
Throw(r, kind, log) ==
    Step(r, [inv[r] EXCEPT !.pc = "cleanup", !.thrown = kind, !.log = log])

\* A throw outside the try block, or in the catch block: the handler rejects.
Reject(r, kind, log) ==
    Step(r, [inv[r] EXCEPT !.pc = "done", !.escaped = kind, !.log = log,
                           !.response = [kind |-> "rejected", body |-> Null]])

HasAvatar(avatar) == avatar # Null /\ Len(avatar) > 2

\* Line 113-119: a request arrives.
Receive(r) ==
    /\ inv[r].pc = "idle"
    /\ \E f \in Forms : Step(r, [inv[r] EXCEPT !.pc = "lookup", !.form = f])
    /\ UNCHANGED <<clock, store, mimeProbe, jsonProbe>>

UserLookupIgnoringResult(r) ==
    /\ inv[r].pc = "lookup"
    /\ LET log == Logged(r, [op |-> "getDocs"])
       IN  \/ Reject(r, "StoreError", log)
           \/ Step(r, [inv[r] EXCEPT !.pc = "create", !.docId = clock, !.log = log])
    /\ UNCHANGED <<clock, store, mimeProbe, jsonProbe>>

\* Lines 121-127: the user lookup; userDoc.data() throws when no user has
\* the email (docs[0] is undefined), and getDocs itself may reject.  Then
\* docId = Date.now().toString().
UserLookup(r) ==
    /\ inv[r].pc = "lookup"
    /\ LET log == Logged(r, [op |-> "getDocs"])
       IN  \/ /\ inv[r].form.userEmail \notin Users
              /\ Reject(r, "TypeError", log)
           \/ /\ inv[r].form.userEmail \in Users
              /\ Step(r, [inv[r] EXCEPT !.pc = "create", !.docId = clock, !.log = log])
           \/ Reject(r, "StoreError", log)
    /\ UNCHANGED <<clock, store, mimeProbe, jsonProbe>>

PendingDoc(r) ==
    [exists |-> TRUE, owner |-> r, docId |-> inv[r].docId,
     userEmail |-> inv[r].form.userEmail, status |-> "pending",
     finalProductImageUrl |-> Null, productImageUrl |-> Null,
     imageToVideoPrompt |-> Null]

\* Lines 128-134: setDoc writes the whole document under docId.
CreateJob(r) ==
    /\ inv[r].pc = "create"
    /\ LET entry == [op |-> "setDoc", status |-> PendingDoc(r).status]
       IN  \/ /\ Reject(r, "StoreError", Logged(r, entry @@ [ok |-> FALSE]))
              /\ UNCHANGED store
           \/ /\ store' = [store EXCEPT ![inv[r].docId] = PendingDoc(r)]
              /\ Step(r, [inv[r] EXCEPT !.pc = "normalize",
                                        !.log = Logged(r, entry @@ [ok |-> TRUE])])
    /\ UNCHANGED <<clock, mimeProbe, jsonProbe>>

\* Lines 137-156 and 164-165: a file is uploaded to the image host when no
\* imageUrl came with the request; its bytes, when there are any, are the
\* product part.
NormalizeAsset(r) ==
    /\ inv[r].pc = "normalize"
    /\ LET form == inv[r].form
           entry == [op |-> "upload", what |-> "product"]
       IN  IF Truthy(form.imageUrl)
           THEN Step(r, [inv[r] EXCEPT !.pc = "product",
                                       !.productImageUrl = form.imageUrl])
           ELSE IF form.file = "none"
           THEN Throw(r, "TypeError", inv[r].log)
           ELSE \/ Throw(r, "UploadError", Logged(r, entry @@ [url |-> Null]))
                \/ Step(r, [inv[r] EXCEPT
                       !.pc = IF form.file = "bytes" THEN "model1" ELSE "product",
                       !.productImageUrl = HostUrl(r, "p"),
                       !.uploadedBase64 = (form.file = "bytes"),
                       !.productPart = IF form.file = "bytes"
                                       THEN InlinePart("file", Null, JPEG)
                                       ELSE NoPart,
                       !.log = Logged(r, entry @@ [url |-> HostUrl(r, "p")])])
    /\ UNCHANGED <<clock, store, mimeProbe, jsonProbe>>

\* Line 166: the product part is fetched when no bytes were uploaded.
FetchProduct(r) ==
    /\ inv[r].pc = "product"
    /\ \E res \in FetchResponses :
         LET url == inv[r].productImageUrl
             out == UrlToInlineData(url, res)
             log == Logged(r, [op |-> "fetch", of |-> "product", url |-> url, res |-> res])
         IN  IF out.thrown # ""
             THEN Throw(r, out.thrown, log)
             ELSE Step(r, [inv[r] EXCEPT !.pc = "model1",
                                         !.productPart = InlinePart("url", url, out.mimeType),
                                         !.log = log])
    /\ UNCHANGED <<clock, store, mimeProbe, jsonProbe>>

JsonPromptAlwaysPlain(avatar) == PROMPT

\* Line 162.
JsonPrompt(avatar) == IF HasAvatar(avatar) THEN AVATAR_PROMPT ELSE PROMPT

\* Line 206: the avatar is fetched before the second call when there is one.
AfterParse(avatar) == IF HasAvatar(avatar) THEN "avatar" ELSE "model2"

\* Lines 162-204: the first model call and the parse of its text.
ComposePrompt(r) ==
    /\ inv[r].pc = "model1"
    /\ LET avatar == inv[r].form.avatar
           parts == <<TextPart(JsonPrompt(avatar)), inv[r].productPart>>
           log == Logged(r, [op |-> "generateContent", model |-> "gemini-2.0-flash",
                             parts |-> parts])
       IN  \/ Throw(r, "ModelError", log)
           \/ \E raw \in ModelOutputs :
                LET parsed == ParseModelOutput(raw)
                IN  IF parsed.thrown # ""
                    THEN Throw(r, parsed.thrown, log)
                    ELSE Step(r, [inv[r] EXCEPT
                           !.pc = AfterParse(avatar),
                           !.json = parsed.value,
                           !.partsForImage =
                               <<TextPart(TextToImageOf(parsed.value)), inv[r].productPart>>,
                           !.log = log])
    /\ UNCHANGED <<clock, store, mimeProbe, jsonProbe>>

\* Lines 206-208.
FetchAvatar(r) ==
    /\ inv[r].pc = "avatar"
    /\ \E res \in FetchResponses :
         LET url == inv[r].form.avatar
             out == UrlToInlineData(url, res)
             log == Logged(r, [op |-> "fetch", of |-> "avatar", url |-> url, res |-> res])
         IN  IF out.thrown # ""
             THEN Throw(r, out.thrown, log)
             ELSE Step(r, [inv[r] EXCEPT
                    !.pc = "model2",
                    !.partsForImage = Append(@, InlinePart("url", url, out.mimeType)),
                    !.log = log])
    /\ UNCHANGED <<clock, store, mimeProbe, jsonProbe>>

\* Lines 210-223: the second model call; no inline image part is an error.
GenerateCreative(r) ==
    /\ inv[r].pc = "model2"
    /\ LET log == Logged(r, [op |-> "generateContent", model |-> "gemini-2.5-flash-image",
                             parts |-> inv[r].partsForImage])
       IN  \/ Throw(r, "ModelError", log)
           \/ Throw(r, "NoImageReturnedError", log)
           \/ Step(r, [inv[r] EXCEPT !.pc = "publish", !.log = log])
    /\ UNCHANGED <<clock, store, mimeProbe, jsonProbe>>

\* Lines 225-229.
PublishUpload(r) ==
    /\ inv[r].pc = "publish"
    /\ LET entry == [op |-> "upload", what |-> "generated"]
       IN  \/ Throw(r, "UploadError", Logged(r, entry @@ [url |-> Null]))
           \/ Step(r, [inv[r] EXCEPT
                  !.pc = "update",
                  !.uploadResult = HostUrl(r, "g"),
                  !.log = Logged(r, entry @@ [url |-> HostUrl(r, "g")])])
    /\ UNCHANGED <<clock, store, mimeProbe, jsonProbe>>

UpdatedDocSwapUrls(doc, r) ==
    [doc EXCEPT !.finalProductImageUrl = inv[r].productImageUrl,
                !.productImageUrl = inv[r].uploadResult,
                !.status = "completed",
                !.imageToVideoPrompt = ImageToVideoOf(inv[r].json)]

\* Lines 231-236: the fields updateDoc merges into the document.
UpdatedDoc(doc, r) ==
    [doc EXCEPT !.finalProductImageUrl = inv[r].uploadResult,
                !.productImageUrl = inv[r].productImageUrl,
                !.status = "completed",
                !.imageToVideoPrompt = ImageToVideoOf(inv[r].json)]

\* Lines 231-236: updateDoc rejects when the document is gone, and refuses an
\* undefined field value.
UpdateJob(r) ==
    /\ inv[r].pc = "update"
    /\ LET id == inv[r].docId
           log == Logged(r, [op |-> "updateDoc"])
       IN  \/ /\ Throw(r, "StoreError", log)
              /\ UNCHANGED store
           \/ /\ ~store[id].exists \/ ImageToVideoOf(inv[r].json) = Null
              /\ Throw(r, "StoreError", log)
              /\ UNCHANGED store
           \/ /\ store[id].exists
              /\ ImageToVideoOf(inv[r].json) # Null
              /\ store' = [store EXCEPT ![id] = UpdatedDoc(store[id], r)]
              /\ Step(r, [inv[r] EXCEPT !.pc = "respond", !.log = log])
    /\ UNCHANGED <<clock, mimeProbe, jsonProbe>>

\* Line 238.
RespondSuccess(r) ==
    /\ inv[r].pc = "respond"
    /\ Step(r, [inv[r] EXCEPT !.pc = "done",
                              !.response = [kind |-> "json", body |-> inv[r].uploadResult]])
    /\ UNCHANGED <<clock, store, mimeProbe, jsonProbe>>

\* Line 240: deleteDoc in the catch block; when it rejects, so does the
\* handler.
Cleanup(r) ==
    /\ inv[r].pc = "cleanup"
    /\ LET log == Logged(r, [op |-> "deleteDoc"])
       IN  \/ /\ Reject(r, "StoreError", log)
              /\ UNCHANGED store
           \/ /\ store' = [store EXCEPT ![inv[r].docId] = NoDoc]
              /\ Step(r, [inv[r] EXCEPT !.pc = "respondError", !.log = log])
    /\ UNCHANGED <<clock, mimeProbe, jsonProbe>>

ERROR_BODY == <<"Please Try Again">>

\* Line 242.
RespondError(r) ==
    /\ inv[r].pc = "respondError"
    /\ Step(r, [inv[r] EXCEPT !.pc = "done",
                              !.response = [kind |-> "error", body |-> ERROR_BODY]])
    /\ UNCHANGED <<clock, store, mimeProbe, jsonProbe>>

\* Time passes between any two steps.
Tick ==
    /\ clock < MaxClock
    /\ clock' = clock + 1
    /\ UNCHANGED <<store, inv, mimeProbe, jsonProbe>>

NoMimeProbe == [called |-> FALSE]
NoJsonProbe == [called |-> FALSE]

Init ==
    /\ clock = 1
    /\ store = [id \in DocIds |-> NoDoc]
    /\ inv = [r \in Requests |-> Idle]
    /\ mimeProbe = NoMimeProbe
    /\ jsonProbe = NoJsonProbe

\* Everything POST does after it has read the form.
Running(r) ==
    \/ UserLookup(r)
    \/ CreateJob(r)
    \/ NormalizeAsset(r)
    \/ FetchProduct(r)
    \/ ComposePrompt(r)
    \/ FetchAvatar(r)
    \/ GenerateCreative(r)
    \/ PublishUpload(r)
    \/ UpdateJob(r)
    \/ RespondSuccess(r)
    \/ Cleanup(r)
    \/ RespondError(r)

\* One submission, over every form.
Next ==
    \/ Tick
    \/ Receive("r1")
    \/ Running("r1")

Spec == Init /\ [][Next]_vars

\* Two concurrent submissions, each with one of these forms: a file and no
\* avatar, an imageUrl and an avatar, and a file from an unknown user.
ConcurrentForms ==
    { [file |-> "bytes", userEmail |-> "known@x", avatar |-> Null, imageUrl |-> Null],
      [file |-> "none", userEmail |-> "known@x", avatar |-> LongAvatar,
       imageUrl |-> ProductUrl],
      [file |-> "bytes", userEmail |-> "unknown@x", avatar |-> Null, imageUrl |-> Null] }

InitConcurrent ==
    /\ clock = 1
    /\ store = [id \in DocIds |-> NoDoc]
    /\ inv \in [Requests -> {[Idle EXCEPT !.pc = "lookup", !.form = f] :
                               f \in ConcurrentForms}]
    /\ mimeProbe = NoMimeProbe
    /\ jsonProbe = NoJsonProbe

NextConcurrent ==
    \/ Tick
    \/ \E r \in Requests : Running(r)

SpecConcurrent == InitConcurrent /\ [][NextConcurrent]_vars

\* ------------------------------------------------ urlToInlineData alone
\* URL endings, each with the type the extension table gives it.
Extensions ==
    { [chars |-> <<".", "j", "p", "g">>, mime |-> JPEG],
      [chars |-> <<".", "J", "P", "G">>, mime |-> JPEG],
      [chars |-> <<".", "j", "p", "e", "g">>, mime |-> JPEG],
      [chars |-> <<".", "J", "p", "E", "g">>, mime |-> JPEG],
      [chars |-> <<".", "w", "e", "b", "p">>, mime |-> WEBP],
      [chars |-> <<".", "W", "E", "B", "P">>, mime |-> WEBP],
      [chars |-> <<".", "g", "i", "f">>, mime |-> GIF],
      [chars |-> <<".", "G", "i", "F">>, mime |-> GIF],
      [chars |-> <<".", "p", "n", "g">>, mime |-> PNG],
      [chars |-> <<".", "x", "y", "z">>, mime |-> PNG],
      [chars |-> <<".", "j", "p", "g", "?">>, mime |-> PNG],
      [chars |-> <<"/", "j", "p", "g">>, mime |-> PNG],
      [chars |-> <<".", "w", "e", "b">>, mime |-> PNG],
      [chars |-> <<>>, mime |-> PNG] }

\* content-type headers, each with whether it starts with "image/".
ContentTypes ==
    { [chars |-> Null, image |-> FALSE],
      [chars |-> <<>>, image |-> FALSE],
      [chars |-> WEBP, image |-> TRUE],
      [chars |-> PNG, image |-> TRUE],
      [chars |-> IMAGE_PREFIX, image |-> TRUE],
      [chars |-> <<"I", "m", "a", "g", "e", "/", "p", "n", "g">>, image |-> FALSE],
      [chars |-> <<"i", "m", "a", "g", "e">>, image |-> FALSE],
      [chars |-> <<"t", "e", "x", "t", "/", "h", "t", "m", "l">>, image |-> FALSE] }

RECURSIVE SeqsUpTo(_, _)
SeqsUpTo(alphabet, n) ==
    IF n = 0 THEN {<<>>}
    ELSE LET shorter == SeqsUpTo(alphabet, n - 1)
         IN  shorter \cup {Append(s, c) : s \in shorter, c \in alphabet}

Stems == SeqsUpTo({"a", "J"}, MaxStem)

InitMime ==
    /\ clock = 1
    /\ store = [id \in DocIds |-> NoDoc]
    /\ inv = [r \in Requests |-> Idle]
    /\ jsonProbe = NoJsonProbe
    /\ \E stem \in Stems, ext \in Extensions, header \in ContentTypes,
          ok \in BOOLEAN, n \in {0, MinBytes - 1, MinBytes, MinBytes + 1} :
         mimeProbe = [called |-> FALSE, url |-> stem \o ext.chars, ext |-> ext,
                      header |-> header,
                      res |-> [rejected |-> FALSE, ok |-> ok, byteLength |-> n,
                               contentType |-> header.chars],
                      out |-> [thrown |-> "", mimeType |-> Null]]

CallUrlToInlineData ==
    /\ ~mimeProbe.called
    /\ mimeProbe' = [mimeProbe EXCEPT !.called = TRUE,
                                      !.out = UrlToInlineData(mimeProbe.url, mimeProbe.res)]
    /\ UNCHANGED <<clock, store, inv, jsonProbe>>

SpecMime == InitMime /\ [][CallUrlToInlineData]_vars

\* ------------------------------------------------------ the parse alone
\* JSON objects as a model writes them, each with the value JSON.parse gives
\* for it alone.
Objects ==
    { [text |-> <<OpenBrace, "m", CloseBrace>>,
       value |-> <<OpenBrace, "m", CloseBrace>>],
      [text |-> <<OpenBrace, " ", "m", CloseBrace>>,
       value |-> <<OpenBrace, "m", CloseBrace>>],
      [text |-> <<OpenBrace, "e", CloseBrace>>,
       value |-> <<OpenBrace, "e", CloseBrace>>],
      [text |-> <<OpenBrace, "m", "F", "m", CloseBrace>>,
       value |-> <<OpenBrace, "m", "F", "m", CloseBrace>>] }

NoObject == [text |-> <<>>, value |-> <<>>]

ProseAlphabet == {OpenBrace, CloseBrace, "[", "]", " ", "F", "J"}

Proses == SeqsUpTo(ProseAlphabet, MaxProse)

InitJson ==
    /\ clock = 1
    /\ store = [id \in DocIds |-> NoDoc]
    /\ inv = [r \in Requests |-> Idle]
    /\ mimeProbe = NoMimeProbe
    /\ \E prefix \in Proses, suffix \in Proses, object \in Objects \cup {NoObject} :
         jsonProbe = [called |-> FALSE, prefix |-> prefix, object |-> object,
                      suffix |-> suffix,
                      raw |-> prefix \o object.text \o suffix,
                      out |-> [thrown |-> "", value |-> <<>>]]

CallParseModelOutput ==
    /\ ~jsonProbe.called
    /\ jsonProbe' = [jsonProbe EXCEPT !.called = TRUE,
                                      !.out = ParseModelOutput(jsonProbe.raw)]
    /\ UNCHANGED <<clock, store, inv, mimeProbe>>

SpecJson == InitJson /\ [][CallParseModelOutput]_vars

\* ----------------------------------------------------------- the claims
Has(s, c) == \E k \in 1..Len(s) : s[k] = c

LogOf(r) == inv[r].log

Entries(r, op) == {k \in 1..Len(LogOf(r)) : LogOf(r)[k].op = op}

\* The failures C1 lists: an upload, a fetch (rejected, not OK or too
\* small), a model call, the parse of the first call's text, a second call
\* without an image, the update of the record.
ListedFailures ==
    {"UploadError", "NetworkError", "FetchError", "EmptyContentError", "ModelError",
     "NoJsonFound", "SyntaxError", "NoImageReturnedError", "StoreError"}

\* Some step inside the try block failed, after the record was created.
FailedAfterCreation(r) == inv[r].thrown \in ListedFailures

\* The document r created is in the store.
OwnRecordExists(r) ==
    /\ inv[r].docId # 0
    /\ store[inv[r].docId].exists
    /\ store[inv[r].docId].owner = r

OwnRecord(r) == store[inv[r].docId]

\* C1: whenever a step after the creation of the job record has failed and
\* the handler has finished, the record it created is gone from "user-ads"
\* and the response is exactly {error: "Please Try Again"}.
C1_FailureDeletesAndAnswersUniformly ==
    \A r \in Requests :
        (inv[r].pc = "done" /\ FailedAfterCreation(r))
            => /\ ~OwnRecordExists(r)
               /\ inv[r].response = [kind |-> "error", body |-> ERROR_BODY]

\* C2: whenever the handler has answered with success, the record it created
\* is completed, its finalProductImageUrl, productImageUrl and
\* imageToVideoPrompt are non-empty, and the answer is its
\* finalProductImageUrl.
C2_SuccessMeansCompletedRecord ==
    \A r \in Requests :
        inv[r].response.kind = "json"
            => /\ OwnRecordExists(r)
               /\ OwnRecord(r).status = "completed"
               /\ Truthy(OwnRecord(r).finalProductImageUrl)
               /\ Truthy(OwnRecord(r).productImageUrl)
               /\ Truthy(OwnRecord(r).imageToVideoPrompt)
               /\ inv[r].response.body = OwnRecord(r).finalProductImageUrl

\* Between the creation of its record and its update or delete.
InsideTry(r) ==
    inv[r].pc \in {"normalize", "product", "model1", "avatar", "model2", "publish", "update"}

\* C3: two concurrent submissions have two distinct job records, each under
\* a docId of its own, and neither's record is changed or removed by the
\* other: a record stays as its owner left it while its owner works.
C3_ConcurrentRunsAreIndependent ==
    \A r \in Requests :
        /\ \A q \in Requests \ {r} :
               (inv[r].docId # 0 /\ inv[q].docId # 0) => inv[r].docId # inv[q].docId
        /\ InsideTry(r) => (OwnRecordExists(r) /\ OwnRecord(r).status = "pending")

\* A submission that carries a userEmail and a file or an imageUrl.
ValidSubmission(r) ==
    /\ inv[r].form.userEmail # ""
    /\ inv[r].form.file # "none" \/ Truthy(inv[r].form.imageUrl)

\* C4 as claimed: every submission with a userEmail and a file or an
\* imageUrl has, once the handler has finished and unless the store itself
\* refused the lookup or the write, created exactly one job record.
C4_EveryValidSubmissionCreatesARecord ==
    \A r \in Requests :
        (inv[r].pc = "done" /\ ValidSubmission(r) /\ inv[r].escaped # "StoreError")
            => Cardinality({k \in Entries(r, "setDoc") : LogOf(r)[k].ok}) = 1

\* What the log of r says of its setDoc calls: at most one, with status
\* pending, right after the lookup and before anything else; exactly one
\* once a known user's request is past it; none, a rejected handler and no
\* record of r when the userEmail matches no user.
SetDocOnceAfterLookup(r) ==
    /\ Cardinality(Entries(r, "setDoc")) <= 1
    /\ \A k \in Entries(r, "setDoc") :
           /\ LogOf(r)[k].status = "pending"
           /\ k = 2
           /\ LogOf(r)[1].op = "getDocs"
    /\ (inv[r].form.userEmail \in Users /\ inv[r].docId # 0 /\ inv[r].pc # "create")
           => Cardinality(Entries(r, "setDoc")) = 1
    /\ (inv[r].pc \notin {"idle", "lookup"} /\ inv[r].form.userEmail \notin Users)
           => /\ Entries(r, "setDoc") = {}
              /\ inv[r].response.kind = "rejected"
              /\ \A id \in DocIds : ~(store[id].exists /\ store[id].owner = r)

\* The step in which the setDoc of r succeeds leaves r's pending record in
\* the store under docId.
SetDocWritesPending(r) ==
    (inv[r].pc = "create" /\ inv'[r].pc = "normalize")
        => /\ store'[inv[r].docId].exists
           /\ store'[inv[r].docId].owner = r
           /\ store'[inv[r].docId].status = "pending"
           /\ store'[inv[r].docId].userEmail = inv[r].form.userEmail

\* C4 as amended: a submission whose user lookup finds a user issues exactly
\* one setDoc, with status pending, after the lookup and before any upload,
\* fetch or model call, and when it succeeds the pending record is in the
\* store; a submission whose userEmail matches no user ends rejected with
\* no setDoc at all.
C4_KnownUserCreatesOnePendingRecord ==
    /\ [](\A r \in Requests : SetDocOnceAfterLookup(r))
    /\ [][\A r \in Requests : SetDocWritesPending(r)]_vars

C4_Witness ==
    /\ inv["r1"].pc = "normalize"
    /\ ValidSubmission("r1")
    /\ OwnRecordExists("r1")
    /\ LogOf("r1")[2].ok

\* C5: the record a request created is pending, or completed with its three
\* result fields written, or gone; and once the handler has finished, by a
\* response or by an error, the record is not left pending.
C5_RecordLifecycle ==
    \A r \in Requests :
        /\ OwnRecordExists(r)
               => \/ OwnRecord(r).status = "pending"
                  \/ /\ OwnRecord(r).status = "completed"
                     /\ OwnRecord(r).finalProductImageUrl # Null
                     /\ OwnRecord(r).productImageUrl # Null
                     /\ OwnRecord(r).imageToVideoPrompt # Null
        /\ inv[r].pc = "done"
               => ~(OwnRecordExists(r) /\ OwnRecord(r).status = "pending")

\* A fetch that answered with a body of fewer than 20 bytes.
SmallFetch(entry) ==
    /\ entry.op = "fetch"
    /\ ~entry.res.rejected
    /\ entry.res.ok
    /\ entry.res.byteLength < 20

\* C6 as claimed: when a fetch by urlToInlineData answers with fewer than 20
\* bytes, the handler fails with the empty-content error and the request
\* makes no call of the generation model, before or after.
C6_SmallFetchMeansNoModelCall ==
    \A r \in Requests : \A k \in Entries(r, "fetch") :
        SmallFetch(LogOf(r)[k])
            => /\ inv[r].thrown = "EmptyContentError"
               /\ Entries(r, "generateContent") = {}

\* C6 as amended: such a fetch fails with the empty-content error and
\* nothing but the cleanup follows it; for the product URL no model call is
\* made at all, for the avatar URL the first model call (gemini-2.0-flash)
\* has been made already, and the image model is never called.
C6_SmallFetchStopsThePipeline ==
    \A r \in Requests : \A k \in Entries(r, "fetch") :
        SmallFetch(LogOf(r)[k])
            => /\ inv[r].thrown = "EmptyContentError"
               /\ \A j \in (k + 1)..Len(LogOf(r)) : LogOf(r)[j].op = "deleteDoc"
               /\ \A j \in Entries(r, "generateContent") :
                      /\ LogOf(r)[j].model = "gemini-2.0-flash"
                      /\ LogOf(r)[k].of = "avatar"
                      /\ j < k
               /\ LogOf(r)[k].of = "avatar"
                      => Cardinality(Entries(r, "generateContent")) = 1

C6_Witness ==
    \E k \in Entries("r1", "fetch") :
        /\ SmallFetch(LogOf("r1")[k])
        /\ LogOf("r1")[k].of = "avatar"
        /\ inv["r1"].pc = "done"

\* The avatar field names an avatar: it is there and longer than 2.
AvatarGiven(r) == inv[r].form.avatar # Null /\ Len(inv[r].form.avatar) > 2

\* C7: with an avatar longer than 2 the first model call carries
\* AVATAR_PROMPT and the second call's parts are the textToImage text, the
\* product image and the avatar image; otherwise the first call carries
\* PROMPT, the second call's parts are the textToImage text and the product
\* image only, and the avatar URL is never fetched.
C7_AvatarSelectsTemplateAndParts ==
    \A r \in Requests :
        /\ \A k \in Entries(r, "generateContent") :
               LET call == LogOf(r)[k]
               IN  IF call.model = "gemini-2.0-flash"
                   THEN call.parts =
                          <<TextPart(IF AvatarGiven(r) THEN AVATAR_PROMPT ELSE PROMPT),
                            inv[r].productPart>>
                   ELSE /\ call.parts[1] = TextPart(TextToImageOf(inv[r].json))
                        /\ call.parts[2] = inv[r].productPart
                        /\ inv[r].productPart # NoPart
                        /\ IF AvatarGiven(r)
                           THEN /\ Len(call.parts) = 3
                                /\ call.parts[3].inlineData.from = "url"
                                /\ call.parts[3].inlineData.url = inv[r].form.avatar
                           ELSE Len(call.parts) = 2
        /\ ~AvatarGiven(r)
               => \A k \in Entries(r, "fetch") : LogOf(r)[k].of # "avatar"

C7_Witness ==
    /\ AvatarGiven("r1")
    /\ \E k \in Entries("r1", "generateContent") :
           /\ LogOf("r1")[k].model = "gemini-2.5-flash-image"
           /\ Len(LogOf("r1")[k].parts) = 3

\* The asset normaliser has run for r.
Normalized(r) ==
    /\ \E k \in Entries(r, "setDoc") : LogOf(r)[k].ok
    /\ inv[r].pc # "normalize"

ProductUploads(r) == {k \in Entries(r, "upload") : LogOf(r)[k].what = "product"}

\* The upload calls normalisation has made for r: one when the request
\* brought a file and no imageUrl, none when it brought an imageUrl.
UploadCallsOfNormalizer(r) ==
    /\ Normalized(r)
           => Cardinality(ProductUploads(r)) =
                IF Truthy(inv[r].form.imageUrl) THEN 0
                ELSE IF inv[r].form.file # "none" THEN 1 ELSE 0
    /\ ~Normalized(r) => ProductUploads(r) = {}

\* The step in which the updateDoc of r succeeds leaves in the record the
\* imageUrl as passed in, or else the URL the product upload returned.
UpdateWritesProductUrl(r) ==
    (inv[r].pc = "update" /\ inv'[r].pc = "respond")
        => /\ store'[inv[r].docId].status = "completed"
           /\ IF Truthy(inv[r].form.imageUrl)
              THEN store'[inv[r].docId].productImageUrl = inv[r].form.imageUrl
              ELSE \E k \in ProductUploads(r) :
                       /\ LogOf(r)[k].url # Null
                       /\ store'[inv[r].docId].productImageUrl = LogOf(r)[k].url

\* C8: normalisation makes exactly one upload call when the request brought
\* a file and no imageUrl and none when it brought an imageUrl; the
\* completed record's productImageUrl is the imageUrl as passed in, or else
\* the URL that upload returned.
C8_OneUploadForNewBytes ==
    /\ [](\A r \in Requests : UploadCallsOfNormalizer(r))
    /\ [][\A r \in Requests : UpdateWritesProductUrl(r)]_vars

C8_Witness ==
    /\ OwnRecordExists("r1")
    /\ OwnRecord("r1").status = "completed"
    /\ ~Truthy(inv["r1"].form.imageUrl)
    /\ Cardinality(ProductUploads("r1")) = 1

\* C9: urlToInlineData returns the content-type header as the MIME type when
\* the header starts with "image/", and otherwise the type of the URL's
\* ending, whatever its case: image/jpeg for .jpg and .jpeg, image/webp for
\* .webp, image/gif for .gif, image/png for any other.
C9_MimeFromHeaderOrExtension ==
    (mimeProbe.called /\ mimeProbe.out.thrown = "")
        => mimeProbe.out.mimeType =
             IF mimeProbe.header.image THEN mimeProbe.header.chars
             ELSE mimeProbe.ext.mime

C9_Witness ==
    /\ mimeProbe.called
    /\ mimeProbe.out.thrown = ""
    /\ ~mimeProbe.header.image
    /\ mimeProbe.ext.chars = <<".", "W", "E", "B", "P">>
    /\ mimeProbe.out.mimeType = WEBP

\* C10 as claimed: a JSON object inside any prose at all parses to the value
\* the object has alone.
C10_AnyProse ==
    (jsonProbe.called /\ jsonProbe.object # NoObject)
        => /\ jsonProbe.out.thrown = ""
           /\ jsonProbe.out.value = jsonProbe.object.value

\* C10 as amended: a JSON object that holds no code fence, inside prose with
\* no "{" and no "[" before the object and no "}" after it, parses to the
\* value the object has alone; and a failure is the malformed-output error,
\* thrown only when the stripped text is not JSON as it stands.
C10_ProseWithoutOuterBraces ==
    /\ (/\ jsonProbe.called
        /\ jsonProbe.object # NoObject
        /\ ~Has(jsonProbe.object.text, "F")
        /\ ~Has(jsonProbe.prefix, OpenBrace)
        /\ ~Has(jsonProbe.prefix, "[")
        /\ ~Has(jsonProbe.suffix, CloseBrace))
           => /\ jsonProbe.out.thrown = ""
              /\ jsonProbe.out.value = jsonProbe.object.value
    /\ (jsonProbe.called /\ jsonProbe.out.thrown # "")
           => /\ IsMalformedOutput(jsonProbe.out.thrown)
              /\ ~JsonParse(StripOutput(jsonProbe.raw)).ok

C10_Witness ==
    /\ jsonProbe.called
    /\ jsonProbe.prefix = <<"F", "J">>
    /\ jsonProbe.suffix = <<" ", "F">>
    /\ jsonProbe.object.text = <<OpenBrace, "m", CloseBrace>>
    /\ jsonProbe.out.value = <<OpenBrace, "m", CloseBrace>>

====
